---------------------------- MODULE Spec2Model ----------------------------
(***************************************************************************)
(* Wasul invoice generator (src/invoice_generator.py).                     *)
(*                                                                         *)
(* The module-level font resolver _register_fonts and the single linear    *)
(* pass of generate_invoice_pdf over a reportlab canvas.  The canvas is    *)
(* modelled by the ordered list of shape and text operations issued on it  *)
(* (rect, roundRect, line, drawString, drawRightString) with their         *)
(* coordinates, text and font family; fill/stroke colours, font sizes and  *)
(* line widths do not influence any coordinate or control flow and are     *)
(* left out of the operation records.                                      *)
(*                                                                         *)
(* A text is a sequence of chunks: a chunk is either the newline token or  *)
(* a newline-free piece of text.  File paths are sequences of characters.  *)
(***************************************************************************)
EXTENDS Integers, Sequences, FiniteSets, TLC

VARIABLES
    LOGO_FONT,      \* module global LOGO_FONT
    registered,     \* font names registered with pdfmetrics
    resolverRuns,   \* number of completed calls of _register_fonts
    fontRuns,       \* history of resolver calls (SpecFonts only)
    pc,             \* position of the process / of the render call
    data,           \* the dict passed to generate_invoice_pdf
    filepath,       \* the path passed to generate_invoice_pdf
    ops,            \* operations issued on the canvas so far
    blocks,         \* blocks entered by the current call, in order
    row_y,          \* local row_y (table / totals cursor)
    item_y,         \* local item_y (usage summary cursor)
    error,          \* key of the KeyError that ended the call, or NoError
    result,         \* value returned to the caller, or NoResult
    saved           \* number of c.save() calls of the current call

fontVars   == <<LOGO_FONT, registered, resolverRuns, fontRuns>>
renderVars == <<data, filepath, ops, blocks, row_y, item_y, error, result,
                saved>>
vars       == <<LOGO_FONT, registered, resolverRuns, fontRuns, pc, data,
                filepath, ops, blocks, row_y, item_y, error, result, saved>>

(***************************************************************************)
(* Bounds of the model.                                                    *)
(***************************************************************************)
MaxResolverRuns == 2
MaxItems        == 2
MaxPayLines     == 6

(***************************************************************************)
(* Generic helpers.                                                        *)
(***************************************************************************)
RECURSIVE Concat(_)
Concat(ss) == IF ss = <<>> THEN <<>> ELSE Head(ss) \o Concat(Tail(ss))

NL == "\n"

\* s.split('\n'): the maximal newline-free runs of s, in order; a text
\* without newline (the empty text included) yields exactly one line.
RECURSIVE SplitFrom(_, _, _)
SplitFrom(s, cur, acc) ==
    IF s = <<>> THEN Append(acc, cur)
    ELSE IF Head(s) = NL THEN SplitFrom(Tail(s), <<>>, Append(acc, cur))
    ELSE SplitFrom(Tail(s), Append(cur, Head(s)), acc)

Split(s) == SplitFrom(s, <<>>, <<>>)

\* str(n) for a Python int: decimal digits, most significant first, with a
\* leading minus sign for negative numbers.
Digit(d) == CASE d = 0 -> "0" [] d = 1 -> "1" [] d = 2 -> "2" [] d = 3 -> "3"
              [] d = 4 -> "4" [] d = 5 -> "5" [] d = 6 -> "6" [] d = 7 -> "7"
              [] d = 8 -> "8" [] d = 9 -> "9"

RECURSIVE Digits(_)
Digits(n) == IF n < 10 THEN <<Digit(n)>>
             ELSE Append(Digits(n \div 10), Digit(n % 10))

Decimal(n) == IF n < 0 THEN <<"-">> \o Digits(0 - n) ELSE Digits(n)

\* A Python value that is either an int or a str.
IntVal(n) == [t |-> "int", v |-> n]
StrVal(s) == [t |-> "str", v |-> s]

\* str(v): a str is returned unchanged, an int is formatted in decimal.
PyStr(val) == IF val.t = "int" THEN Decimal(val.v) ELSE val.v

(***************************************************************************)
(* Font resolver: module level, lines 14-34.                               *)
(***************************************************************************)
FALLBACK_FONT == "Helvetica-Bold"

font_paths == <<
    <<"f","o","n","t","s","/","D","M","S","e","r","i","f","D","i","s","p",
      "l","a","y","-","R","e","g","u","l","a","r",".","t","t","f">>,
    <<"D","M","S","e","r","i","f","D","i","s","p","l","a","y","-","R","e",
      "g","u","l","a","r",".","t","t","f">>,
    <<"/","u","s","r","/","s","h","a","r","e","/","f","o","n","t","s","/",
      "t","r","u","e","t","y","p","e","/","l","i","b","e","r","a","t","i",
      "o","n","/","L","i","b","e","r","a","t","i","o","n","S","e","r","i",
      "f","-","B","o","l","d",".","t","t","f">> >>

\* Python's  sub in s  on strings.
Contains(sub, s) ==
    \E i \in 1..(Len(s) - Len(sub) + 1) : SubSeq(s, i, i + Len(sub) - 1) = sub

FontNameFor(path) ==
    IF Contains(<<"D","M","S","e","r","i","f">>, path) THEN "DMSerif"
    ELSE "SerifLogo"

\* What the resolver can find at one candidate path: no file, a file that
\* TTFont / registerFont rejects with an exception, or a usable font file.
PathStates == {"missing", "corrupt", "ok"}
FsStates   == [1..Len(font_paths) -> PathStates]

\* State of one call of _register_fonts: the global, the registry, the names
\* registered by this call, loop exit by break, exception leaving the call.
ResolverStart(font, registry) ==
    [font |-> font, registry |-> registry, regs |-> <<>>,
     stop |-> FALSE, raised |-> FALSE]

\* Mutant: the except clause lets the exception leave the resolver.
ProbePropagating(i, fs, st) ==
    IF fs[i] = "missing" THEN st
    ELSE IF fs[i] = "ok"
         THEN [st EXCEPT !.font = FontNameFor(font_paths[i]),
                         !.registry = @ \cup {FontNameFor(font_paths[i])},
                         !.regs = Append(@, FontNameFor(font_paths[i])),
                         !.stop = TRUE]
         ELSE [st EXCEPT !.stop = TRUE, !.raised = TRUE]

\* Mutant: the break after a successful registration is missing.
ProbeNoBreak(i, fs, st) ==
    IF fs[i] = "missing" THEN st
    ELSE IF fs[i] = "ok"
         THEN [st EXCEPT !.font = FontNameFor(font_paths[i]),
                         !.registry = @ \cup {FontNameFor(font_paths[i])},
                         !.regs = Append(@, FontNameFor(font_paths[i]))]
         ELSE st

\* One iteration of  for path in font_paths  (lines 25-32).
Probe(i, fs, st) ==
    IF fs[i] = "missing" THEN st
    ELSE IF fs[i] = "ok"
         THEN [st EXCEPT !.font = FontNameFor(font_paths[i]),
                         !.registry = @ \cup {FontNameFor(font_paths[i])},
                         !.regs = Append(@, FontNameFor(font_paths[i])),
                         !.stop = TRUE]
         ELSE st

RECURSIVE ProbeAll(_, _, _)
ProbeAll(i, fs, st) ==
    IF i > Len(font_paths) \/ st.stop THEN st
    ELSE ProbeAll(i + 1, fs, Probe(i, fs, st))

\* _register_fonts() under filesystem state fs.
register_fonts(fs) == ProbeAll(1, fs, ResolverStart(LOGO_FONT, registered))


(***************************************************************************)
(* The canvas: page geometry and the operations issued on it.              *)
(***************************************************************************)
width  == 612
height == 792

CanvasOp(blk, op, x, y, a, b, text, font) ==
    [blk |-> blk, op |-> op, x |-> x, y |-> y, a |-> a, b |-> b,
     text |-> text, font |-> font]

\* c.drawString(x, y, text) / c.drawRightString(x, y, text) in the font set
\* by the preceding c.setFont.
DrawString(blk, x, y, text, font) ==
    CanvasOp(blk, "drawString", x, y, 0, 0, text, font)
DrawRightString(blk, x, y, text, font) ==
    CanvasOp(blk, "drawRightString", x, y, 0, 0, text, font)
\* c.line(x1, y1, x2, y2), c.rect(x, y, w, h), c.roundRect(x, y, w, h, r).
Line(blk, x1, y1, x2, y2) == CanvasOp(blk, "line", x1, y1, x2, y2, <<>>, "")
Rect(blk, x, y, w, h) == CanvasOp(blk, "rect", x, y, w, h, <<>>, "")
RoundRect(blk, x, y, w, h) == CanvasOp(blk, "roundRect", x, y, w, h, <<>>, "")

\* A statement of the render: the dict key it subscripts (if any), whether
\* the subscript succeeds, and the canvas operations it issues when it does.
Stmt(key, ok, oplist) == [key |-> key, ok |-> ok, ops |-> oplist]
Do(oplist) == Stmt("", TRUE, oplist)

Min(S) == CHOOSE m \in S : \A n \in S : m <= n

\* Mutant: a missing key is skipped over instead of raising KeyError.
RunIgnoringMissing(stmts) ==
    LET Go(ss) ==
          [ops |-> Concat([i \in 1..Len(ss) |->
                             IF ss[i].ok THEN ss[i].ops ELSE <<>>]),
           err |-> FALSE, key |-> "<no error>"]
    IN  CHOOSE r \in {Go(ss) : ss \in {stmts}} : TRUE

\* Statements execute in order; the first failing subscript raises
\* KeyError(key) and nothing after it executes.
Run(stmts) ==
    LET Go(ss, bad) ==
          IF bad = {}
          THEN [ops |-> Concat([i \in 1..Len(ss) |-> ss[i].ops]),
                err |-> FALSE, key |-> "<no error>"]
          ELSE [ops |-> Concat([i \in 1..(Min(bad) - 1) |-> ss[i].ops]),
                err |-> TRUE, key |-> ss[Min(bad)].key]
    IN  CHOOSE r \in {Go(ss, {i \in 1..Len(ss) : ~ss[i].ok}) :
                        ss \in {stmts}} : TRUE

Has(d, k) == k \in DOMAIN d
\* d[k]; the empty text stands in where the subscript raises.
Val(d, k) == IF Has(d, k) THEN d[k] ELSE <<>>
\* A statement that draws d[k].
Need(d, k, oplist) == Stmt(k, Has(d, k), oplist)

(***************************************************************************)
(* HEADER, lines 71-92.                                                    *)
(***************************************************************************)
HeaderStmts(d, logo) == <<
    Do(<<Rect("header", 0, height - 4, width, 4)>>),
    Do(<<DrawString("header", 60, height - 60, <<"Wasul">>, logo)>>),
    Do(<<DrawRightString("header", width - 60, height - 45, <<"INVOICE">>,
                         "Helvetica")>>),
    Need(d, "invoice_number",
         <<DrawRightString("header", width - 60, height - 62,
                           Val(d, "invoice_number"), "Helvetica-Bold")>>),
    Do(<<Line("header", 60, height - 80, width - 60, height - 80)>>) >>

(***************************************************************************)
(* FROM / TO / DETAILS, lines 94-140.                                      *)
(***************************************************************************)
party_y == height - 110

\* for i, line in enumerate(text.split('\n')): c.drawString(x, y-32-i*14, line)
AddressLines(x, y, text) ==
    LET lines == Split(text) IN
    [i \in 1..Len(lines) |->
        DrawString("party", x, y - 32 - ((i - 1) * 14), lines[i], "Helvetica")]

\* Mutant: the address lines start 32 units below the name line.
FromAddressBelowName(d, y) ==
    AddressLines(60, y - 16, Val(d, "from_address"))

FromAddressLines(d, y) == AddressLines(60, y, Val(d, "from_address"))

\* Mutant: the address is drawn whenever the key is present.
PartnerAddressIfPresent(d, y) ==
    IF Has(d, "partner_address")
    THEN AddressLines(250, y, d["partner_address"])
    ELSE <<>>

\* if data.get('partner_address'): ...  (absent and empty are both falsy)
PartnerAddressLines(d, y) ==
    IF Has(d, "partner_address") /\ d["partner_address"] # <<>>
    THEN AddressLines(250, y, d["partner_address"])
    ELSE <<>>

DetailRows(d, y) ==
    LET details == << <<"Invoice Date", Val(d, "invoice_date")>>,
                      <<"Due Date", Val(d, "due_date")>>,
                      <<"Billing Period", Val(d, "billing_period")>> >>
        detail_x == width - 180
    IN Concat([i \in 1..Len(details) |->
          LET ry == y - 16 - ((i - 1) * 22) IN
          << DrawString("party", detail_x, ry + 9, <<details[i][1]>>,
                        "Helvetica"),
             DrawString("party", detail_x, ry - 4, details[i][2],
                        "Helvetica-Bold") >>])

PartyStmts(d) ==
    LET y == party_y IN <<
    Do(<<DrawString("party", 60, y, <<"FROM">>, "Helvetica")>>),
    Need(d, "from_name",
         <<DrawString("party", 60, y - 16, Val(d, "from_name"),
                      "Helvetica-Bold")>>),
    Need(d, "from_address", FromAddressLines(d, y)),
    Do(<<DrawString("party", 250, y, <<"BILL TO">>, "Helvetica")>>),
    Need(d, "partner_name",
         <<DrawString("party", 250, y - 16, Val(d, "partner_name"),
                      "Helvetica-Bold")>>),
    Do(PartnerAddressLines(d, y)),
    Do(<<DrawString("party", width - 180, y, <<"DETAILS">>, "Helvetica")>>),
    Need(d, "invoice_date", <<>>),
    Need(d, "due_date", <<>>),
    Need(d, "billing_period", <<>>),
    Do(DetailRows(d, y)) >>

(***************************************************************************)
(* USAGE TABLE, lines 142-169.                                             *)
(***************************************************************************)
\* Mutant: the table is pushed down by the sender's extra address lines.
TableTopReflow(d) ==
    height - 240 - 14 * (Len(Split(Val(d, "from_address"))) - 1)

table_top(d) == height - 240

\* The body of  for item in data['line_items']  for one item at row_y = ry.
RowStmts(item, ry) == <<
    Need(item, "description",
         <<DrawString("table", 72, ry, Val(item, "description"),
                      "Helvetica")>>),
    Need(item, "quantity",
         <<DrawString("table", 340, ry,
                      IF Has(item, "quantity") THEN PyStr(item["quantity"])
                      ELSE <<>>, "Helvetica")>>),
    Need(item, "rate",
         <<DrawString("table", 420, ry, Val(item, "rate"), "Helvetica")>>),
    Need(item, "amount",
         <<DrawRightString("table", width - 72, ry, Val(item, "amount"),
                           "Helvetica")>>),
    Do(<<Line("table", 72, ry - 12, width - 72, ry - 12)>>) >>

\* Mutant: the loop leaves out the last item.
RECURSIVE RowLoopDropLast(_, _, _)
RowLoopDropLast(items, ry, acc) ==
    IF Len(items) <= 1 THEN [stmts |-> acc, row_y |-> ry]
    ELSE RowLoopDropLast(Tail(items), (ry - 12) - 22,
                         acc \o RowStmts(Head(items), ry))

\* The loop over the items: statements issued (appended to acc) and the
\* final row_y.
RECURSIVE RowLoop(_, _, _)
RowLoop(items, ry, acc) ==
    IF items = <<>> THEN [stmts |-> acc, row_y |-> ry]
    ELSE RowLoop(Tail(items), (ry - 12) - 22,
                 acc \o RowStmts(Head(items), ry))

TableStmts(d) ==
    LET top == table_top(d) IN <<
    Do(<<RoundRect("table", 60, top - 6, width - 120, 24)>>),
    Do(<<DrawString("table", 72, top, <<"DESCRIPTION">>, "Helvetica-Bold")>>),
    Do(<<DrawString("table", 340, top, <<"QUANTITY">>, "Helvetica-Bold")>>),
    Do(<<DrawString("table", 420, top, <<"RATE">>, "Helvetica-Bold")>>),
    Do(<<DrawRightString("table", width - 72, top, <<"AMOUNT">>,
                         "Helvetica-Bold")>>),
    Need(d, "line_items", <<>>) >>
    \o RowLoop(Val(d, "line_items"), top - 36, <<>>).stmts

\* row_y when the loop ends normally.
TableCursor(d) ==
    RowLoop(Val(d, "line_items"), table_top(d) - 36, <<>>).row_y

(***************************************************************************)
(* TOTALS, lines 171-194.                                                  *)
(***************************************************************************)
\* data.get('tax', '$0.00')
TaxText(d) == IF Has(d, "tax") THEN d["tax"] ELSE <<"$0.00">>

TotalsStmts(d, ry) ==
    LET totals_x     == 380
        totals_val_x == width - 72
        y1 == ry - 8
        y2 == y1 - 22
        y3 == y2 - 28
    IN <<
    Do(<<DrawString("totals", totals_x, y1, <<"Subtotal">>, "Helvetica")>>),
    Need(d, "subtotal",
         <<DrawRightString("totals", totals_val_x, y1, Val(d, "subtotal"),
                           "Helvetica")>>),
    Do(<<DrawString("totals", totals_x, y2, <<"Tax">>, "Helvetica")>>),
    Do(<<DrawRightString("totals", totals_val_x, y2, TaxText(d),
                         "Helvetica")>>),
    Do(<<Line("totals", totals_x, y3 + 16, totals_val_x, y3 + 16)>>),
    Do(<<RoundRect("totals", totals_x - 12, y3 - 10,
                   totals_val_x - totals_x + 24, 32)>>),
    Do(<<DrawString("totals", totals_x, y3, <<"Total Due">>,
                    "Helvetica-Bold")>>),
    Need(d, "total",
         <<DrawRightString("totals", totals_val_x, y3, Val(d, "total"),
                           "Helvetica-Bold")>>) >>

\* row_y when the totals block ends normally.
TotalsCursor(ry) == ((ry - 8) - 22) - 28

(***************************************************************************)
(* USAGE SUMMARY, lines 196-219.                                           *)
(***************************************************************************)
IntText(d, k) == IF Has(d, k) THEN PyStr(d[k]) ELSE <<>>

RECURSIVE SummaryLoop(_, _, _)
SummaryLoop(items, iy, acc) ==
    IF items = <<>> THEN [ops |-> acc, item_y |-> iy]
    ELSE SummaryLoop(Tail(items), iy - 20,
             acc \o << DrawString("summary", 72, iy, <<Head(items)[1]>>,
                                  "Helvetica"),
                       DrawString("summary", 250, iy, Head(items)[2],
                                  "Helvetica") >>)

summary_items(d) == <<
    <<"Total Lookups", IntText(d, "total_lookups")>>,
    <<"Deliveries Verified", IntText(d, "deliveries_verified")>>,
    <<"API Key", Val(d, "api_key_preview")>>,
    <<"Account Status", <<"Active">> >> >>

SummaryStmts(d, ry) ==
    LET summary_y == ry - 60 IN <<
    Do(<<DrawString("summary", 60, summary_y, <<"Usage Summary">>,
                    "Helvetica-Bold")>>),
    Do(<<Line("summary", 60, summary_y - 10, width - 60, summary_y - 10)>>),
    Need(d, "total_lookups", <<>>),
    Need(d, "deliveries_verified", <<>>),
    Need(d, "api_key_preview", <<>>),
    Do(SummaryLoop(summary_items(d), summary_y - 32, <<>>).ops) >>

\* item_y when the summary loop ends.
SummaryCursor(d, ry) ==
    SummaryLoop(summary_items(d), (ry - 60) - 32, <<>>).item_y

(***************************************************************************)
(* PAYMENT INSTRUCTIONS, lines 221-231.                                    *)
(***************************************************************************)
\* Mutant: only the lines that fit the 100-unit panel are drawn.
PaymentLinesClipped(d, pay_y) ==
    LET lines == Split(Val(d, "payment_instructions")) IN
    Concat([i \in 1..Len(lines) |->
              IF pay_y - 18 - ((i - 1) * 14) >= pay_y - 80
              THEN <<DrawString("payment", 80, pay_y - 18 - ((i - 1) * 14),
                                lines[i], "Helvetica")>>
              ELSE <<>>])

PaymentLines(d, pay_y) ==
    LET lines == Split(Val(d, "payment_instructions")) IN
    [i \in 1..Len(lines) |->
        DrawString("payment", 80, pay_y - 18 - ((i - 1) * 14), lines[i],
                   "Helvetica")]

PaymentStmts(d, iy) ==
    LET pay_y == iy - 30 IN <<
    Do(<<RoundRect("payment", 60, pay_y - 80, width - 120, 100)>>),
    Do(<<DrawString("payment", 80, pay_y, <<"Payment Instructions">>,
                    "Helvetica-Bold")>>),
    Need(d, "payment_instructions", PaymentLines(d, pay_y)) >>

(***************************************************************************)
(* FOOTER, lines 233-240.                                                  *)
(***************************************************************************)
\* (The dash of the organisational caption is written in ASCII here.)
FooterStmts ==
    LET footer_y == 50 IN <<
    Do(<<Line("footer", 60, footer_y + 16, width - 60, footer_y + 16)>>),
    Do(<<DrawString("footer", 60, footer_y,
           <<"Wasul - Address registration and delivery infrastructure for Oman">>,
           "Helvetica")>>),
    Do(<<DrawRightString("footer", width - 60, footer_y,
           <<"Thank you for your business">>, "Helvetica")>>) >>

NoData   == [none |-> TRUE]
NoError  == "<no error>"
NoResult == "<no result>"

Init ==
    /\ LOGO_FONT = FALLBACK_FONT
    /\ registered = {}
    /\ resolverRuns = 0
    /\ fontRuns = <<>>
    /\ pc = "import"
    /\ data = NoData
    /\ filepath = NoResult
    /\ ops = <<>>
    /\ blocks = <<>>
    /\ row_y = 0
    /\ item_y = 0
    /\ error = NoError
    /\ result = NoResult
    /\ saved = 0

(***************************************************************************)
(* Inputs: the records a caller may pass.                                  *)
(***************************************************************************)
RequiredKeys == <<"invoice_number", "from_name", "from_address",
                  "partner_name", "invoice_date", "due_date",
                  "billing_period", "line_items", "subtotal", "total",
                  "total_lookups", "deliveries_verified", "api_key_preview",
                  "payment_instructions">>
ItemKeys == <<"description", "quantity", "rate", "amount">>

Range(f) == {f[i] : i \in DOMAIN f}
With(d, k, v) == [x \in DOMAIN d \cup {k} |-> IF x = k THEN v ELSE d[x]]
Without(d, k) == [x \in DOMAIN d \ {k} |-> d[x]]

ItemPool == {
    [description |-> <<"API Lookups">>, quantity |-> IntVal(1200),
     rate |-> <<"$0.01">>, amount |-> <<"$12.00">>],
    [description |-> <<"Support">>, quantity |-> StrVal(<<"2">>),
     rate |-> <<"$5.00">>, amount |-> <<"$10.00">>] }

ItemLists == UNION {[1..n -> ItemPool] : n \in 0..MaxItems}

FromAddresses == { <<"Wasul LLC">>, <<"Wasul LLC", NL, "Muscat, Oman">> }

\* partner_address: key absent, empty string, or a two-line address.
Absent == <<"<absent>">>
PartnerAddresses == { Absent, <<>>, <<"PO Box 1", NL, "Salalah">> }
Taxes == { Absent, <<"$1.50">> }

\* A text of n lines.
PayText(n) ==
    Concat([i \in 1..n |->
              IF i = 1 THEN <<"Pay line ", Digit(i)>>
              ELSE <<NL, "Pay line ", Digit(i)>>])
PayTexts == { PayText(1), PayText(MaxPayLines) }

\* What the caller left out: nothing, one required key, or one key of one
\* line item.
Drops(items) ==
    {<<"none", 0, "">>}
    \cup {<<"top", 0, k>> : k \in Range(RequiredKeys)}
    \cup {<<"item", p, k>> : p \in 1..Len(items), k \in Range(ItemKeys)}

Record(items, fa, pa, tx, pay, drop) ==
    LET its == IF drop[1] = "item"
               THEN [items EXCEPT ![drop[2]] = Without(@, drop[3])]
               ELSE items
        base == [invoice_number |-> <<"WAS-2026-0001">>,
                 from_name |-> <<"Wasul LLC">>,
                 from_address |-> fa,
                 partner_name |-> <<"Muscat Couriers">>,
                 invoice_date |-> <<"2026-01-31">>,
                 due_date |-> <<"2026-02-14">>,
                 billing_period |-> <<"January 2026">>,
                 line_items |-> its,
                 subtotal |-> <<"$12.00">>,
                 total |-> <<"$13.50">>,
                 total_lookups |-> IntVal(1200),
                 deliveries_verified |-> IntVal(980),
                 api_key_preview |-> <<"wsl_ab12...">>,
                 payment_instructions |-> pay]
        d1 == IF pa = Absent THEN base ELSE With(base, "partner_address", pa)
        d2 == IF tx = Absent THEN d1 ELSE With(d1, "tax", tx)
    IN  IF drop[1] = "top" THEN Without(d2, drop[3]) ELSE d2

FilePaths == {"invoice.pdf"}

(***************************************************************************)
(* Actions.                                                                *)
(***************************************************************************)
\* A call of _register_fonts: the one at import time (line 34) when
\* pc = "import", a later direct call of the module function otherwise.
RunResolver(fs) ==
    /\ pc \in {"import", "idle"}
    /\ Len(fontRuns) < MaxResolverRuns
    /\ LET r == register_fonts(fs) IN
        /\ LOGO_FONT' = r.font
        /\ registered' = r.registry
        /\ fontRuns' = Append(fontRuns,
               [fs |-> fs, before |-> LOGO_FONT, font |-> r.font,
                regs |-> r.regs, raised |-> r.raised])
    /\ resolverRuns' = resolverRuns + 1
    /\ pc' = "idle"
    /\ UNCHANGED renderVars

\* Line 34: the module is imported, _register_fonts() runs once.
ImportModule ==
    /\ pc = "import"
    /\ \E fs \in FsStates :
        LET r == register_fonts(fs) IN
        /\ LOGO_FONT' = r.font
        /\ registered' = r.registry
    /\ resolverRuns' = resolverRuns + 1
    /\ pc' = "idle"
    /\ UNCHANGED <<fontRuns, renderVars>>

\* generate_invoice_pdf(filepath, data) is called; lines 59-60 create the
\* canvas.
StartRender(fp, d) ==
    /\ pc = "idle"
    /\ pc' = "header"
    /\ data' = d
    /\ filepath' = fp
    /\ ops' = <<>>
    /\ blocks' = <<>>
    /\ row_y' = 0
    /\ item_y' = 0
    /\ error' = NoError
    /\ result' = NoResult
    /\ saved' = 0
    /\ UNCHANGED fontVars

\* One block of the render: its statements run in order; a KeyError ends
\* the call and propagates to the caller.
Block(here, stmts, next) ==
    /\ pc = here
    /\ \E r \in {Run(stmts)} :
        /\ ops' = ops \o r.ops
        /\ pc' = IF r.err THEN "error" ELSE next
        /\ error' = r.key
    /\ blocks' = Append(blocks, here)
    /\ UNCHANGED <<fontVars, data, filepath, result, saved>>

Header ==
    /\ Block("header", HeaderStmts(data, LOGO_FONT), "party")
    /\ UNCHANGED <<row_y, item_y>>

Party ==
    /\ Block("party", PartyStmts(data), "table")
    /\ UNCHANGED <<row_y, item_y>>

Table ==
    /\ Block("table", TableStmts(data), "totals")
    /\ row_y' = IF pc' = "error" THEN row_y ELSE TableCursor(data)
    /\ UNCHANGED item_y

Totals ==
    /\ Block("totals", TotalsStmts(data, row_y), "summary")
    /\ row_y' = IF pc' = "error" THEN row_y ELSE TotalsCursor(row_y)
    /\ UNCHANGED item_y

Summary ==
    /\ Block("summary", SummaryStmts(data, row_y), "payment")
    /\ item_y' = IF pc' = "error" THEN item_y ELSE SummaryCursor(data, row_y)
    /\ UNCHANGED row_y

Payment ==
    /\ Block("payment", PaymentStmts(data, item_y), "footer")
    /\ UNCHANGED <<row_y, item_y>>

Footer ==
    /\ Block("footer", FooterStmts, "save")
    /\ UNCHANGED <<row_y, item_y>>

\* Mutant: the function saves but does not return the path.
SaveWithoutReturn ==
    /\ pc = "save"
    /\ saved' = saved + 1
    /\ result' = NoResult
    /\ pc' = "done"
    /\ UNCHANGED <<fontVars, data, filepath, ops, blocks, row_y, item_y,
                   error>>

\* Lines 242-243: c.save(); return filepath.
Save ==
    /\ pc = "save"
    /\ saved' = saved + 1
    /\ result' = filepath
    /\ pc' = "done"
    /\ UNCHANGED <<fontVars, data, filepath, ops, blocks, row_y, item_y,
                   error>>

\* The call has ended: the caller holds the returned path or the KeyError,
\* the locals and the canvas object are gone.
Return ==
    /\ pc \in {"done", "error"}
    /\ pc' = "idle"
    /\ data' = NoData
    /\ filepath' = NoResult
    /\ ops' = <<>>
    /\ blocks' = <<>>
    /\ row_y' = 0
    /\ item_y' = 0
    /\ error' = NoError
    /\ result' = NoResult
    /\ saved' = 0
    /\ UNCHANGED fontVars

RenderStep ==
    \/ Header
    \/ Party
    \/ Table
    \/ Totals
    \/ Summary
    \/ Payment
    \/ Footer
    \/ Save

Call ==
    /\ pc = "idle"
    /\ \E fp \in FilePaths, items \in ItemLists, fa \in FromAddresses,
          pa \in PartnerAddresses, tx \in Taxes, pay \in PayTexts :
           \E drop \in Drops(items) :
               StartRender(fp, Record(items, fa, pa, tx, pay, drop))

Next ==
    \/ ImportModule
    \/ Call
    \/ RenderStep
    \/ Return

Spec == Init /\ [][Next]_vars

\* The call is synchronous: once started, every statement executes.
FairSpec == Spec /\ WF_vars(RenderStep)

NextFonts ==
    /\ pc \in {"import", "idle"}
    /\ \E fs \in FsStates : RunResolver(fs)

SpecFonts == Init /\ [][NextFonts]_vars

(***************************************************************************)
(* Vocabulary of the properties.                                           *)
(***************************************************************************)
Order == <<"header", "party", "table", "totals", "summary", "payment",
           "footer">>
Rank(b) == CHOOSE i \in 1..Len(Order) : Order[i] = b

InRender == pc \in Range(Order) \cup {"save", "done", "error"}

\* Block b has run to its end without raising.
Completed(b) ==
    /\ b \in Range(blocks)
    /\ ~(pc = "error" /\ blocks[Len(blocks)] = b)

OpsOf(b) == SelectSeq(ops, LAMBDA o : o.blk = b)

\* Number of newline-delimited lines of a text.
LineCount(text) == 1 + Cardinality({i \in DOMAIN text : text[i] = NL})

ItemComplete(item) == \A k \in Range(ItemKeys) : Has(item, k)
Complete(d) ==
    /\ \A k \in Range(RequiredKeys) : Has(d, k)
    /\ \A i \in DOMAIN d["line_items"] : ItemComplete(d["line_items"][i])

NItems == Len(data["line_items"])

\* The block in which the render first subscripts a key.
BlockOf(k) ==
    CASE k = "invoice_number" -> "header"
      [] k \in {"from_name", "from_address", "partner_name", "invoice_date",
                "due_date", "billing_period"} -> "party"
      [] k \in {"line_items"} \cup Range(ItemKeys) -> "table"
      [] k \in {"subtotal", "total"} -> "totals"
      [] k \in {"total_lookups", "deliveries_verified", "api_key_preview"}
           -> "summary"
      [] k = "payment_instructions" -> "payment"

\* The keys the record lacks: required keys, and keys of line items.
MissingKeys(d) ==
    {k \in Range(RequiredKeys) : ~Has(d, k)}
    \cup (IF Has(d, "line_items")
          THEN {k \in Range(ItemKeys) :
                  \E i \in DOMAIN d["line_items"] : ~Has(d["line_items"][i], k)}
          ELSE {})

(***************************************************************************)
(* C1.  The cursor the table hands to the totals block lies exactly        *)
(* 34 * N below its position for N = 0 (table top - 36, the table top      *)
(* being page height - 240), and the Subtotal row is drawn 8 units below   *)
(* it: its y depends on the number N of line items alone, not on the       *)
(* address lines, the payment lines or any other field.                    *)
(***************************************************************************)
C1_SubtotalDependsOnNOnly ==
    /\ pc = "totals" => row_y = ((height - 240) - 36) - 34 * NItems
    /\ "totals" \in Range(blocks) =>
         /\ \E i \in DOMAIN ops :
              ops[i].blk = "totals" /\ ops[i].text = <<"Subtotal">>
         /\ \A i \in DOMAIN ops :
              ops[i].blk = "totals" /\ ops[i].text = <<"Subtotal">>
                => ops[i].y = ((height - 240) - 44) - 34 * NItems
    /\ Completed("totals") =>
         \E i \in DOMAIN ops :
            /\ ops[i].blk = "totals"
            /\ ops[i].text = data["subtotal"]
            /\ ops[i].op = "drawRightString"
            /\ ops[i].y = ((height - 240) - 44) - 34 * NItems

C1_Witness ==
    /\ pc = "done"
    /\ NItems = 2
    /\ LineCount(data["from_address"]) = 2
    /\ Has(data, "partner_address") /\ LineCount(data["partner_address"]) = 2
    /\ LineCount(data["payment_instructions"]) > 1
    /\ \E i \in DOMAIN ops : ops[i].text = <<"Subtotal">> /\ ops[i].y = 440

(***************************************************************************)
(* C2.  The table draws exactly N rows in the order of line_items, each    *)
(* row being description, str(quantity), rate, amount and then one         *)
(* divider line; with N = 0 only the header band and its four captions     *)
(* are drawn, and the table block raises nothing for complete items.       *)
(***************************************************************************)
C2_RowsInOrder ==
    /\ Completed("table") =>
        LET t     == OpsOf("table")
            items == data["line_items"]
            top   == height - 240
        IN  /\ Len(t) = 5 + 5 * NItems
            /\ t[1].op = "roundRect"
            /\ <<t[2].text, t[3].text, t[4].text, t[5].text>> =
                 << <<"DESCRIPTION">>, <<"QUANTITY">>, <<"RATE">>,
                    <<"AMOUNT">> >>
            /\ \A j \in 2..5 : t[j].y = top
            /\ \A i \in 1..NItems :
                LET b == 5 + 5 * (i - 1)
                    y == (top - 36) - 34 * (i - 1)
                    q == items[i]["quantity"]
                IN  /\ t[b + 1].text = items[i]["description"]
                    /\ q.t = "str" => t[b + 2].text = q.v
                    /\ q = IntVal(1200) => t[b + 2].text = <<"1", "2", "0", "0">>
                    /\ t[b + 3].text = items[i]["rate"]
                    /\ t[b + 4].text = items[i]["amount"]
                    /\ t[b + 4].op = "drawRightString"
                    /\ \A j \in 1..3 : t[b + j].op = "drawString"
                    /\ \A j \in 1..4 : t[b + j].y = y
                    /\ t[b + 5].op = "line"
                    /\ t[b + 5].y = y - 12
    /\ (pc = "error" /\ blocks[Len(blocks)] = "table") =>
         ~(Has(data, "line_items")
           /\ \A i \in DOMAIN data["line_items"] :
                 ItemComplete(data["line_items"][i]))

C2_Witness ==
    /\ Completed("table")
    /\ NItems = 2
    /\ data["line_items"][1] # data["line_items"][2]
    /\ data["line_items"][1]["quantity"].t = "int"
    /\ Len(OpsOf("table")) = 15

(***************************************************************************)
(* C3.  Whatever the optional fields are, a record with all required       *)
(* fields renders without error; the recipient column draws its caption    *)
(* and the partner name, no address line when partner_address is absent    *)
(* or empty and one line per newline-delimited segment otherwise; the tax  *)
(* row shows "$0.00" when tax is absent and the supplied string otherwise. *)
(***************************************************************************)
C3_OptionalFields ==
    /\ (InRender /\ Complete(data)) => pc # "error"
    /\ Completed("party") =>
        LET addr == SelectSeq(ops, LAMBDA o :
                       o.blk = "party" /\ o.x = 250 /\ o.y <= party_y - 32)
            pa   == IF Has(data, "partner_address")
                    THEN data["partner_address"] ELSE <<>>
        IN  /\ Len(addr) = IF pa = <<>> THEN 0 ELSE LineCount(pa)
            /\ \A i \in DOMAIN addr : addr[i].y = (party_y - 32) - 14 * (i - 1)
            /\ \E i \in DOMAIN ops :
                  /\ ops[i].text = <<"BILL TO">>
                  /\ ops[i].x = 250 /\ ops[i].y = party_y
            /\ \E i \in DOMAIN ops :
                  /\ ops[i].text = data["partner_name"]
                  /\ ops[i].x = 250 /\ ops[i].y = party_y - 16
    /\ Completed("totals") =>
        \E i \in DOMAIN ops :
            /\ ops[i].blk = "totals" /\ ops[i].text = <<"Tax">>
            /\ ops[i + 1].op = "drawRightString"
            /\ ops[i + 1].y = ops[i].y
            /\ ops[i + 1].text = IF Has(data, "tax") THEN data["tax"]
                                 ELSE <<"$0.00">>

C3_Witness ==
    /\ pc = "done"
    /\ Has(data, "partner_address") /\ data["partner_address"] = <<>>
    /\ ~Has(data, "tax")
    /\ \E i \in DOMAIN ops : ops[i].text = <<"$0.00">>

(***************************************************************************)
(* C4.  A record that lacks a required key (or a key of a line item) ends  *)
(* the call in a KeyError for that key in the block that first subscripts  *)
(* it: no later block is entered, nothing of a later block is drawn, save  *)
(* is not reached, no path is returned, and after the error the only step  *)
(* is the return to the caller (nothing is retried).                       *)
(***************************************************************************)
C4_MissingFieldAborts ==
    /\ [](InRender /\ MissingKeys(data) # {} =>
            /\ pc \notin {"save", "done"}
            /\ saved = 0
            /\ result = NoResult
            /\ \A k \in MissingKeys(data) :
                 /\ \A b \in Range(blocks) : Rank(b) <= Rank(BlockOf(k))
                 /\ \A i \in DOMAIN ops : Rank(ops[i].blk) <= Rank(BlockOf(k))
                 /\ BlockOf(k) \in Range(blocks) => pc = "error" /\ error = k
                 /\ pc = "error" => blocks[Len(blocks)] = BlockOf(k)
            /\ (pc = "error" /\ error \in Range(ItemKeys)) =>
                 \E p \in DOMAIN data["line_items"] :
                 \E j \in DOMAIN ItemKeys :
                    /\ ItemKeys[j] = error
                    /\ ~Has(data["line_items"][p], error)
                    /\ Len(OpsOf("table")) = 5 + 5 * (p - 1) + (j - 1))
    /\ [][pc = "error" => pc' = "idle" /\ result' = NoResult /\ saved' = 0]_vars

C4_Witness ==
    /\ pc = "error"
    /\ error = "subtotal"
    /\ blocks = <<"header", "party", "table", "totals">>
    /\ ops[Len(ops)].text = <<"Subtotal">>

(***************************************************************************)
(* C5.  A resolver call that starts from the initial state leaves          *)
(* LOGO_FONT at the name derived from the first candidate, in list order,  *)
(* that exists and registers without error ("DMSerif" for the two DM       *)
(* Serif paths, "SerifLogo" for the Liberation path); candidates that are  *)
(* missing or fail to register are passed over; with no such candidate     *)
(* LOGO_FONT stays "Helvetica-Bold"; no error leaves the resolver.         *)
(***************************************************************************)
C5_FirstRegistrableCandidateWins ==
    Len(fontRuns) >= 1 =>
        LET r    == fontRuns[1]
            good == {i \in DOMAIN r.fs : r.fs[i] = "ok"}
            name == <<"DMSerif", "DMSerif", "SerifLogo">>
        IN  /\ ~r.raised
            /\ r.before = "Helvetica-Bold"
            /\ good = {} => r.font = "Helvetica-Bold"
            /\ good # {} => r.font = name[Min(good)]
            /\ Len(fontRuns) = 1 => LOGO_FONT = r.font

C5_Witness ==
    /\ Len(fontRuns) = 1
    /\ fontRuns[1].fs = <<"corrupt", "missing", "ok">>
    /\ LOGO_FONT = "SerifLogo"

(***************************************************************************)
(* C6.  Two consecutive resolver calls under the same filesystem state     *)
(* resolve the same logo font name, every call registers at most one       *)
(* font, and the two calls together register at most one font name.        *)
(***************************************************************************)
C6_ResolverIdempotent ==
    /\ \A i \in DOMAIN fontRuns : Len(fontRuns[i].regs) <= 1
    /\ \A i \in DOMAIN fontRuns :
         (i + 1 \in DOMAIN fontRuns /\ fontRuns[i].fs = fontRuns[i + 1].fs) =>
            /\ fontRuns[i + 1].font = fontRuns[i].font
            /\ Cardinality(Range(fontRuns[i].regs)
                           \cup Range(fontRuns[i + 1].regs)) <= 1

C6_Witness ==
    /\ Len(fontRuns) = 2
    /\ fontRuns[1].fs = <<"ok", "corrupt", "ok">>
    /\ fontRuns[2].fs = fontRuns[1].fs
    /\ fontRuns[2].font = "DMSerif"
    /\ registered = {"DMSerif"}

(***************************************************************************)
(* C7.  Every one of the L newline-delimited lines of                      *)
(* payment_instructions is drawn, line i (from 0) 14 * i units below the   *)
(* first, also when the lines run past the panel; the panel is drawn once, *)
(* 100 units high, at a position that depends on the number of line items  *)
(* only, and the footer does not move.                                     *)
(***************************************************************************)
C7_AllPaymentLinesDrawn ==
    /\ (pc = "error" /\ blocks[Len(blocks)] = "payment") =>
          ~Has(data, "payment_instructions")
    /\ Completed("payment") =>
        LET P     == OpsOf("payment")
            L     == LineCount(data["payment_instructions"])
            lines == Split(data["payment_instructions"])
            pay_y == 256 - 34 * NItems
        IN  /\ Len(P) = 2 + L
            /\ P[1] = RoundRect("payment", 60, pay_y - 80, width - 120, 100)
            /\ \A i \in 2..Len(P) : P[i].op = "drawString"
            /\ P[2].text = <<"Payment Instructions">> /\ P[2].y = pay_y
            /\ Len(lines) = L
            /\ \A i \in 1..L :
                 /\ P[2 + i].text = lines[i]
                 /\ P[2 + i].y = (pay_y - 18) - 14 * (i - 1)
    /\ Completed("footer") =>
        LET F == OpsOf("footer")
        IN  /\ Len(F) = 3
            /\ <<F[1].op, F[1].y, F[1].b>> = <<"line", 66, 66>>
            /\ F[2].y = 50 /\ F[3].y = 50

C7_Witness ==
    /\ pc = "done"
    /\ LET P == OpsOf("payment")
       IN  /\ P[Len(P)].op = "drawString"
           /\ P[Len(P)].y < P[1].y
           /\ Len(P) = 2 + LineCount(data["payment_instructions"])

(***************************************************************************)
(* C8.  For a two-line from_address the sender column draws exactly two    *)
(* address lines, 14 units apart, the first one 16 units below the line    *)
(* on which from_name is drawn (32 units below the FROM caption).          *)
(***************************************************************************)
SenderAddressOps ==
    SelectSeq(ops, LAMBDA o : o.blk = "party" /\ o.x = 60
                              /\ o.font = "Helvetica" /\ o.text # <<"FROM">>)
SenderNameOps ==
    SelectSeq(ops, LAMBDA o : o.blk = "party" /\ o.x = 60
                              /\ o.font = "Helvetica-Bold")
SenderCaptionOps ==
    SelectSeq(ops, LAMBDA o : o.blk = "party" /\ o.x = 60
                              /\ o.text = <<"FROM">>)
TwoLineSender ==
    /\ Completed("party")
    /\ LineCount(data["from_address"]) = 2

C8_SenderAddressBelowName ==
    TwoLineSender =>
        /\ Len(SenderNameOps) = 1
        /\ SenderNameOps[1].text = data["from_name"]
        /\ Len(SenderAddressOps) = 2
        /\ SenderAddressOps[2].y = SenderAddressOps[1].y - 14
        /\ SenderAddressOps[1].y = SenderNameOps[1].y - 16
        /\ SenderAddressOps[1].y = SenderCaptionOps[1].y - 32

C8_Witness ==
    /\ TwoLineSender
    /\ Len(SenderAddressOps) = 2
    /\ SenderAddressOps[1].text = <<"Wasul LLC">>
    /\ SenderAddressOps[2].text = <<"Muscat, Oman">>

\* C8 as stated: the first address line begins 32 units below the name line.
C8_AsStated ==
    TwoLineSender =>
        /\ Len(SenderAddressOps) = 2
        /\ SenderAddressOps[2].y = SenderAddressOps[1].y - 14
        /\ SenderAddressOps[1].y = SenderNameOps[1].y - 32

(***************************************************************************)
(* C10.  A render is one linear pass: the blocks are entered in the order  *)
(* header, party, table, totals, summary, payment, footer, none twice;     *)
(* the canvas is saved at most once and only after the footer; a render    *)
(* of a complete record always reaches the saved state and returns the     *)
(* target path; the font resolver has run exactly once before any render   *)
(* starts and no step of a render runs it or changes LOGO_FONT.            *)
(***************************************************************************)
C10_SingleLinearPass ==
    /\ [](/\ blocks = SubSeq(Order, 1, Len(blocks))
          /\ \A i \in 1..(Len(ops) - 1) :
                Rank(ops[i].blk) <= Rank(ops[i + 1].blk)
          /\ \A i \in DOMAIN ops : ops[i].blk \in Range(blocks)
          /\ saved <= 1
          /\ saved = 1 => blocks = Order /\ pc = "done"
          /\ pc = "done" => saved = 1 /\ result = filepath /\ blocks = Order
          /\ pc = "save" => blocks = Order
          /\ InRender => resolverRuns = 1)
    /\ [][pc # "import" =>
            /\ resolverRuns' = resolverRuns
            /\ LOGO_FONT' = LOGO_FONT
            /\ registered' = registered]_vars
    /\ [][(pc \in Range(Order) /\ pc' \in Range(Order))
            => Rank(pc') = Rank(pc) + 1]_vars
    /\ ((pc = "header" /\ Complete(data))
          ~> (pc = "done" /\ result = filepath /\ saved = 1))

C10_Witness ==
    /\ pc = "done"
    /\ blocks = Order
    /\ saved = 1
    /\ result = "invoice.pdf"
    /\ ops[1].font = "" /\ ops[2].font = LOGO_FONT /\ LOGO_FONT = "DMSerif"

=============================================================================
